---------------------------- MODULE Spec2Model ----------------------------
(***************************************************************************)
(* A state-machine model of Analysis.ipynb: the scanpy example workflow.   *)
(*                                                                         *)
(* The notebook is a straight-line program: its code cells run from top to *)
(* bottom, each statement of a cell in turn, and the first exception ends  *)
(* the run.  The state is the kernel's namespace (car1, naive, var_names,  *)
(* adata), the local variable adata of BasicFiltering, the position in the *)
(* notebook, and the state of the two data directories.                    *)
(*                                                                         *)
(* An annotated matrix is a record: obs (the cells), var (the gene         *)
(* symbols, in column order), X (the counts, by cell and column), the      *)
(* per-cell and per-gene annotations scanpy writes, and applied, the       *)
(* operations the matrix has been through, in order.  The numerical steps  *)
(* of the library (normalisation, regression, PCA, the graph, UMAP,        *)
(* Leiden) are recorded in applied and their values are not computed.      *)
(*                                                                         *)
(* Genes per cell are counted against the notebook's own thresholds (200   *)
(* and 5000), so a column of the model may stand for a block of genes with *)
(* pairwise distinct symbols and the same counts in every cell (GeneMult), *)
(* and a row for a block of cells with the same counts (CellMult).         *)
(***************************************************************************)
EXTENDS Integers, Sequences, FiniteSets, TLC

VARIABLES
    files,   \* per sample directory: "ok", "malformed" or "missing"
    env,     \* the kernel namespace: a function from the bound names
    frame,   \* <<adata>>: the local adata of BasicFiltering once it is rebound
             \* to a view of the caller's matrix; <<>> otherwise
    pc,      \* [cell, i]: the statement of the notebook to run next
    status,  \* "running", "error" (an exception ended the run) or "done"
    err      \* the exception raised and the statement that raised it

vars == <<files, env, frame, pc, status, err>>

---------------------------------------------------------------------------
(* Bounds *)

\* Largest number of distinct rows (cell profiles) of one sample's matrix.
MaxCells == 4

---------------------------------------------------------------------------
(* Thresholds written in the notebook *)

min_cells == 3
min_genes == 200
max_n_genes_by_counts == 5000
min_n_genes_by_counts == 200
max_pct_counts_mt == 10
n_pcs == 40

---------------------------------------------------------------------------
(* Gene symbols: strings, as sequences of characters *)

Chars(s) ==
    CASE s = "Hk"     -> <<"H", "k">>
      [] s = "Db"     -> <<"D", "b">>
      [] s = "A"      -> <<"A">>
      [] s = "B"      -> <<"B">>
      [] s = "C"      -> <<"C">>
      [] s = "A-1"    -> <<"A", "-", "1">>
      [] s = "mt-Co1" -> <<"m", "t", "-", "C", "o", "1">>
      [] s = "Rps2"   -> <<"R", "p", "s", "2">>

\* str.startswith(prefix)
StartsWith(name, prefix) ==
    /\ Len(name) >= Len(prefix)
    /\ SubSeq(name, 1, Len(prefix)) = prefix

Digit(d) ==
    CASE d = 0 -> "0" [] d = 1 -> "1" [] d = 2 -> "2" [] d = 3 -> "3"
      [] d = 4 -> "4" [] d = 5 -> "5" [] d = 6 -> "6" [] d = 7 -> "7"
      [] d = 8 -> "8" [] d = 9 -> "9"

\* str(n) for a natural number n
RECURSIVE Str(_)
Str(n) == IF n < 10 THEN <<Digit(n)>> ELSE Str(n \div 10) \o <<Digit(n % 10)>>

Range(s) == {s[i] : i \in 1..Len(s)}

IsUnique(s) == \A i, j \in 1..Len(s) : s[i] = s[j] => i = j

\* The first k > n for which v + "-" + str(k) is not yet a symbol.
RECURSIVE FirstFree(_, _, _)
FirstFree(v, n, taken) ==
    IF (v \o <<"-">> \o Str(n + 1)) \notin taken
    THEN n + 1
    ELSE FirstFree(v, n + 1, taken)

\* The loop of anndata's make_index_unique over the symbols from position i:
\* every repeat of an earlier symbol gets "-1", "-2", ... appended, skipping
\* the suffixed names that are already symbols.  counter maps a symbol to
\* the last number tried for it.
RECURSIVE MakeUniqueFrom(_, _, _, _, _)
MakeUniqueFrom(names, i, out, taken, counter) ==
    IF i > Len(names) THEN out
    ELSE LET v == names[i]
             dup == \E j \in 1..(i - 1) : names[j] = v
         IN  IF ~dup
             THEN MakeUniqueFrom(names, i + 1, Append(out, v), taken, counter)
             ELSE LET n0 == IF v \in DOMAIN counter THEN counter[v] ELSE 0
                      k == FirstFree(v, n0, taken)
                      new == v \o <<"-">> \o Str(k)
                  IN  MakeUniqueFrom(names, i + 1, Append(out, new),
                                     taken \cup {new},
                                     [w \in (DOMAIN counter) \cup {v} |->
                                        IF w = v THEN k ELSE counter[w]])

\* What a loop without the membership test would do: the k-th repeat of a
\* symbol gets "-k", whether or not that name is already a symbol.
RECURSIVE AppendCountFrom(_, _, _)
AppendCountFrom(names, i, out) ==
    IF i > Len(names) THEN out
    ELSE LET v == names[i]
             k == Cardinality({j \in 1..(i - 1) : names[j] = v})
         IN  AppendCountFrom(names, i + 1,
                 Append(out, IF k = 0 THEN v ELSE v \o <<"-">> \o Str(k)))

var_names_make_unique_nocheck(names) == AppendCountFrom(names, 1, <<>>)

\* adata.var_names_make_unique()
var_names_make_unique(names) ==
    IF IsUnique(names) THEN names
    ELSE MakeUniqueFrom(names, 1, <<>>, Range(names), <<>>)

---------------------------------------------------------------------------
(* The input files *)

\* The symbol column of genes.tsv: the lists a directory may hold.
FeatureLists ==
    { <<Chars("Hk"), Chars("Db"), Chars("A"), Chars("B"), Chars("C"),
        Chars("mt-Co1")>>,
      <<Chars("Hk"), Chars("Db"), Chars("A"), Chars("A-1"), Chars("A"),
        Chars("mt-Co1")>>,
      <<Chars("Hk"), Chars("Db"), Chars("B"), Chars("B"), Chars("Rps2"),
        Chars("mt-Co1")>> }

\* A column whose symbol is Hk stands for 199 genes (with the same counts in
\* every cell and symbols of their own), one whose symbol is Db for 4800
\* genes; any other column is one gene.
GeneMult(name) ==
    IF name = Chars("Hk") THEN 199
    ELSE IF name = Chars("Db") THEN 4800
    ELSE 1

\* The rows matrix.mtx may hold: the counts of a cell in the six columns
\* (Hk, Db, three genes, the mitochondrial gene).
Profile(c) ==
    CASE c = "good"  -> <<1, 1, 0, 0, 0, 0>>    \* 4999 genes
      [] c = "g200"  -> <<1, 0, 0, 0, 1, 0>>    \* 200 genes
      [] c = "mt10"  -> <<1, 0, 8, 0, 0, 23>>   \* 201 genes, 23 of 230 counts
      [] c = "mt15"  -> <<1, 0, 4, 0, 1, 36>>   \* 202 genes, 36 of 240 counts
      [] c = "low"   -> <<1, 0, 1, 0, 1, 1>>    \* 202 genes, 1 of 202 counts
      [] c = "g5000" -> <<1, 1, 0, 0, 1, 0>>    \* 5000 genes
      [] c = "few"   -> <<1, 0, 0, 1, 0, 0>>    \* 200 genes, one in no other cell

Barcodes == {"good", "g200", "mt10", "mt15", "low", "g5000", "few"}

\* The row "good" stands for 60 cells with the same counts, any other row
\* for one cell.
CellMult(c) == IF c = "good" THEN 60 ELSE 1

\* The cell sets barcodes.tsv may hold.
CellSets == {S \in SUBSET Barcodes : Cardinality(S) <= MaxCells}

---------------------------------------------------------------------------
(* Annotated matrices *)

RECURSIVE SumSeq(_)
SumSeq(s) == IF s = <<>> THEN 0 ELSE Head(s) + SumSeq(Tail(s))

RECURSIVE SumMult(_)
SumMult(S) ==
    IF S = {} THEN 0
    ELSE LET c == CHOOSE x \in S : TRUE IN CellMult(c) + SumMult(S \ {c})

\* The entries of s at the positions in keep, in order (a boolean mask).
RECURSIVE MaskFrom(_, _, _)
MaskFrom(s, keep, i) ==
    IF i > Len(s) THEN <<>>
    ELSE (IF i \in keep THEN <<s[i]>> ELSE <<>>) \o MaskFrom(s, keep, i + 1)

Mask(s, keep) == MaskFrom(s, keep, 1)

Restrict(f, S) == [x \in S \cap DOMAIN f |-> f[x]]

\* adata.n_obs and adata.n_vars
n_obs(adata) == SumMult(adata.obs)
n_vars(adata) == SumSeq([j \in 1..Len(adata.var) |-> GeneMult(adata.var[j])])

\* Number of genes with a positive count in cell c.
GenesExpressed(adata, c) ==
    SumSeq([j \in 1..Len(adata.var) |->
              IF adata.X[c][j] > 0 THEN GeneMult(adata.var[j]) ELSE 0])

\* Number of cells with a positive count of the gene in column j.
CellsExpressing(adata, j) ==
    SumMult({c \in adata.obs : adata.X[c][j] > 0})

\* Total counts of cell c over the columns in cols.
Counts(adata, c, cols) ==
    SumSeq([j \in 1..Len(adata.var) |->
              IF j \in cols THEN adata.X[c][j] * GeneMult(adata.var[j]) ELSE 0])

\* sc.read_10x_mtx(gex_path, var_names='gene_symbols') on a well-formed
\* directory holding the symbols features and the cells cells.
read_10x_mtx(features, cells) ==
    [ obs |-> cells,
      var |-> features,
      X |-> [c \in cells |-> Profile(c)],
      sample |-> [c \in {} |-> ""],
      n_genes |-> [c \in {} |-> 0],
      n_cells |-> <<>>,
      mt |-> <<>>,
      ribo |-> <<>>,
      n_genes_by_counts |-> [c \in {} |-> 0],
      total_counts |-> [c \in {} |-> 0],
      pct_counts_mt |-> [c \in {} |-> <<0, 0>>],
      pct_counts_ribo |-> [c \in {} |-> <<0, 0>>],
      is_view |-> FALSE,
      applied |-> <<>> ]

\* The body of LoadData on a well-formed directory.
LoadData(features, cells) ==
    LET adata == read_10x_mtx(features, cells)
    IN  [adata EXCEPT !.var = var_names_make_unique(@),
                      !.applied = <<"read_10x_mtx">>]

---------------------------------------------------------------------------
(* The steps of BasicFiltering and Clustering *)

Log(adata, op) == [adata EXCEPT !.applied = Append(@, op)]

\* Indexing by a boolean mask over the cells: adata[mask, :] is a view, which
\* keeps the parent's arrays and the rows selected.
View(adata, rows) == [adata EXCEPT !.obs = rows, !.is_view = TRUE]

\* A view becomes a matrix of its own the first time it is written to.
Actualize(adata) ==
    [adata EXCEPT !.X = Restrict(@, adata.obs),
                  !.sample = Restrict(@, adata.obs),
                  !.n_genes = Restrict(@, adata.obs),
                  !.n_genes_by_counts = Restrict(@, adata.obs),
                  !.total_counts = Restrict(@, adata.obs),
                  !.pct_counts_mt = Restrict(@, adata.obs),
                  !.pct_counts_ribo = Restrict(@, adata.obs),
                  !.is_view = FALSE]

\* adata._inplace_subset_obs(rows)
SubsetObs(adata, rows) == Actualize([adata EXCEPT !.obs = rows])

\* adata.obs['sample'] = label
SetSample(adata, label) ==
    [adata EXCEPT !.sample = [c \in adata.obs |-> label]]

\* sc.pp.filter_genes(adata, min_cells=3), from two cells up
filter_genes_min2(adata) ==
    LET n == [j \in 1..Len(adata.var) |-> CellsExpressing(adata, j)]
        keep == {j \in 1..Len(adata.var) : n[j] >= min_cells - 1}
    IN  Log([adata EXCEPT !.var = Mask(@, keep),
                          !.X = [c \in DOMAIN @ |-> Mask(@[c], keep)],
                          !.n_cells = Mask(n, keep)],
            "filter_genes")

\* sc.pp.filter_genes(adata, min_cells=3): annotates every gene with the
\* number of cells expressing it and keeps the genes with at least min_cells.
filter_genes(adata) ==
    LET n == [j \in 1..Len(adata.var) |-> CellsExpressing(adata, j)]
        keep == {j \in 1..Len(adata.var) : n[j] >= min_cells}
    IN  Log([adata EXCEPT !.var = Mask(@, keep),
                          !.X = [c \in DOMAIN @ |-> Mask(@[c], keep)],
                          !.n_cells = Mask(n, keep)],
            "filter_genes")

\* sc.pp.filter_cells(adata, min_genes=200): annotates every cell with the
\* number of genes it expresses and keeps the cells with at least min_genes.
filter_cells(adata) ==
    LET n == [c \in adata.obs |-> GenesExpressed(adata, c)]
        keep == {c \in adata.obs : n[c] >= min_genes}
    IN  Log(SubsetObs([adata EXCEPT !.n_genes = n], keep), "filter_cells")

\* The 'mt' and 'ribo' columns and sc.pp.calculate_qc_metrics(adata,
\* qc_vars=['mt','ribo']).  A percentage is kept as <<100 * part, total>>.
calculate_qc_metrics(adata) ==
    LET cols == 1..Len(adata.var)
        mt == [j \in cols |-> StartsWith(adata.var[j], <<"m", "t", "-">>)]
        ribo == [j \in cols |->
                    \/ StartsWith(adata.var[j], <<"R", "p", "s">>)
                    \/ StartsWith(adata.var[j], <<"R", "p", "l">>)]
        total == [c \in adata.obs |-> Counts(adata, c, cols)]
    IN  Log([adata EXCEPT
                !.mt = mt,
                !.ribo = ribo,
                !.n_genes_by_counts =
                    [c \in adata.obs |-> GenesExpressed(adata, c)],
                !.total_counts = total,
                !.pct_counts_mt = [c \in adata.obs |->
                    <<100 * Counts(adata, c, {j \in cols : mt[j]}), total[c]>>],
                !.pct_counts_ribo = [c \in adata.obs |->
                    <<100 * Counts(adata, c, {j \in cols : ribo[j]}), total[c]>>]],
            "calculate_qc_metrics")

\* pct < k, pct = k and pct > k for a percentage <<100 * part, total>>; a
\* percentage of no counts (0/0) compares false with everything.
PctLess(p, k) == p[2] > 0 /\ p[1] < k * p[2]
PctEqual(p, k) == p[2] > 0 /\ p[1] = k * p[2]
PctGreater(p, k) == p[2] > 0 /\ p[1] > k * p[2]

\* adata[adata.obs.n_genes_by_counts < 5000, :]
HighGenes(adata) ==
    Log(View(adata, {c \in adata.obs :
                       adata.n_genes_by_counts[c] < max_n_genes_by_counts}),
        "high")

\* The lower bound taken on the rows of the parent matrix, not of the view.
LowGenes_parent(adata) ==
    Log(View(adata, {c \in DOMAIN adata.n_genes_by_counts :
                       adata.n_genes_by_counts[c] > min_n_genes_by_counts}),
        "low")

\* The lower bound taken inclusive, as filter_cells takes its own.
LowGenes_inclusive(adata) ==
    Log(View(adata, {c \in adata.obs :
                       adata.n_genes_by_counts[c] >= min_n_genes_by_counts}),
        "low")

\* adata[adata.obs.n_genes_by_counts > 200, :]
LowGenes(adata) ==
    Log(View(adata, {c \in adata.obs :
                       adata.n_genes_by_counts[c] > min_n_genes_by_counts}),
        "low")

\* The cutoff taken inclusive.
MitoCutoff_inclusive(adata) ==
    Log(View(adata, {c \in adata.obs :
                       \/ PctLess(adata.pct_counts_mt[c], max_pct_counts_mt)
                       \/ PctEqual(adata.pct_counts_mt[c], max_pct_counts_mt)}),
        "mt")

\* adata[adata.obs.pct_counts_mt < 10, :]
MitoCutoff(adata) ==
    Log(View(adata, {c \in adata.obs :
                       PctLess(adata.pct_counts_mt[c], max_pct_counts_mt)}),
        "mt")

\* sc.pp.normalize_per_cell(adata, counts_per_cell_after=1000): drops the
\* cells without counts (min_counts=1) and rescales the others.
normalize_per_cell(adata) ==
    LET a == Actualize(adata)
        keep == {c \in a.obs : Counts(a, c, 1..Len(a.var)) >= 1}
    IN  Log(SubsetObs(a, keep), "normalize_per_cell")

\* A library step that rewrites X or adds an annotation the model does not
\* compute: log1p, highly_variable_genes, regress_out, scale, pca,
\* neighbors, umap, leiden.
LibraryStep(adata, op) == Log(Actualize(adata), op)

\* PCA yields fewer components than the matrix has rows or columns, and the
\* graph is asked for n_pcs of them.
TooSmall(adata) == n_obs(adata) <= n_pcs \/ n_vars(adata) <= n_pcs

---------------------------------------------------------------------------
(* The notebook *)

Samples == {"car1", "naive"}

\* The code cells after the imports and the definitions, top to bottom.
CellOrder ==
    <<"car1", "naive", "cluster_naive", "cluster_car1", "merge", "integrate">>

\* The statements of BasicFiltering with the order of the first two
\* normaliser steps exchanged.
BasicFilteringBody_log_first ==
    << "filter_genes", "filter_cells", "calculate_qc_metrics",
       "high", "low", "mt",
       "log1p", "normalize_per_cell", "highly_variable_genes",
       "regress_out", "scale" >>

\* The statements of BasicFiltering that change the matrix, in order.
BasicFilteringBody ==
    << "filter_genes", "filter_cells", "calculate_qc_metrics",
       "high", "low", "mt",
       "normalize_per_cell", "log1p", "highly_variable_genes",
       "regress_out", "scale" >>

\* The statements of Clustering that change the matrix, in order.
ClusteringBody == <<"pca", "neighbors", "umap", "leiden">>

\* The statements of a code cell.
Body(cell) ==
    CASE cell \in Samples -> <<"LoadData", "sample">> \o BasicFilteringBody
      [] cell \in {"cluster_naive", "cluster_car1"} -> ClusteringBody
      [] cell = "merge" ->
            <<"intersection", "naive_treated", "car1", "concatenate">>
            \o ClusteringBody
      [] cell = "integrate" -> <<"bbknn", "umap", "leiden">>

\* The name of the matrix the statements of a code cell work on.
Target(cell) ==
    CASE cell \in Samples -> cell
      [] cell = "cluster_naive" -> "naive"
      [] cell = "cluster_car1" -> "car1"
      [] cell \in {"merge", "integrate"} -> "adata"

SampleLabel(s) == IF s = "car1" THEN "Car1" ELSE "Naive"

CellIndex(cell) == CHOOSE k \in 1..(Len(CellOrder) + 1) :
                      IF cell = "end" THEN k = Len(CellOrder) + 1
                      ELSE k <= Len(CellOrder) /\ CellOrder[k] = cell

\* The statement after p: the next of its cell, or the first of the next cell.
After(p) ==
    IF p.i < Len(Body(p.cell)) THEN [cell |-> p.cell, i |-> p.i + 1]
    ELSE IF CellIndex(p.cell) = Len(CellOrder) THEN [cell |-> "end", i |-> 1]
    ELSE [cell |-> CellOrder[CellIndex(p.cell) + 1], i |-> 1]

Stmt == Body(pc.cell)[pc.i]

At(st) == status = "running" /\ Stmt = st

Bound(name) == name \in DOMAIN env

Bind(name, value) ==
    [n \in (DOMAIN env) \cup {name} |-> IF n = name THEN value ELSE env[n]]

\* The matrix the current statement works on.
Cur == IF frame # <<>> THEN frame[1] ELSE env[Target(pc.cell)]

Goto ==
    /\ pc' = After(pc)
    /\ status' = IF After(pc).cell = "end" THEN "done" ELSE "running"
    /\ err' = err

\* An exception: nothing handles it, and the run ends at this statement.
Raise(type) ==
    /\ status' = "error"
    /\ err' = <<[type |-> type, cell |-> pc.cell, stmt |-> Stmt]>>
    /\ UNCHANGED <<files, env, frame, pc>>

\* read_10x_mtx reads every directory that exists, whatever it holds.
Readable_lenient(dir) == dir # "missing"

\* read_10x_mtx returns a matrix only for a directory that holds the three
\* well-formed files.
Readable(dir) == dir = "ok"

Init ==
    /\ files \in [Samples -> {"ok", "malformed", "missing"}]
    /\ env = <<>>
    /\ frame = <<>>
    /\ pc = [cell |-> "car1", i |-> 1]
    /\ status = "running"
    /\ err = <<>>

\* car1=LoadData('./data/car1/') and naive=LoadData('./data/naive/')
RunLoadData ==
    /\ At("LoadData")
    /\ Readable(files[pc.cell])
    /\ \E features \in FeatureLists, cells \in CellSets :
          env' = Bind(pc.cell, LoadData(features, cells))
    /\ Goto
    /\ UNCHANGED <<files, frame>>

LoadDataFails ==
    /\ At("LoadData")
    /\ ~Readable(files[pc.cell])
    /\ Raise(IF files[pc.cell] = "missing" THEN "FileNotFoundError"
             ELSE "ValueError")

\* car1.obs['sample']='Car1' and naive.obs['sample']='Naive'
RunSetSample ==
    /\ At("sample")
    /\ env' = Bind(pc.cell, SetSample(env[pc.cell], SampleLabel(pc.cell)))
    /\ Goto
    /\ UNCHANGED <<files, frame>>

\* The steps of BasicFiltering that change the caller's matrix in place.
RunFilterGenes ==
    /\ At("filter_genes")
    /\ env' = Bind(pc.cell, filter_genes(env[pc.cell]))
    /\ Goto
    /\ UNCHANGED <<files, frame>>

RunFilterCells ==
    /\ At("filter_cells")
    /\ env' = Bind(pc.cell, filter_cells(env[pc.cell]))
    /\ Goto
    /\ UNCHANGED <<files, frame>>

RunCalculateQcMetrics ==
    /\ At("calculate_qc_metrics")
    /\ env' = Bind(pc.cell, calculate_qc_metrics(env[pc.cell]))
    /\ Goto
    /\ UNCHANGED <<files, frame>>

\* The steps of BasicFiltering that rebind its local adata to a view.
RunHighGenes ==
    /\ At("high")
    /\ frame' = <<HighGenes(Cur)>>
    /\ Goto
    /\ UNCHANGED <<files, env>>

RunLowGenes ==
    /\ At("low")
    /\ frame' = <<LowGenes(Cur)>>
    /\ Goto
    /\ UNCHANGED <<files, env>>

RunMitoCutoff ==
    /\ At("mt")
    /\ frame' = <<MitoCutoff(Cur)>>
    /\ Goto
    /\ UNCHANGED <<files, env>>

\* The normaliser steps of BasicFiltering, on its local adata.
RunNormalizePerCell ==
    /\ At("normalize_per_cell")
    /\ frame' = <<normalize_per_cell(Cur)>>
    /\ Goto
    /\ UNCHANGED <<files, env>>

RunLog1p ==
    /\ At("log1p")
    /\ frame' = <<LibraryStep(Cur, "log1p")>>
    /\ Goto
    /\ UNCHANGED <<files, env>>

RunHighlyVariableGenes ==
    /\ At("highly_variable_genes")
    /\ frame' = <<LibraryStep(Cur, "highly_variable_genes")>>
    /\ Goto
    /\ UNCHANGED <<files, env>>

RunRegressOut ==
    /\ At("regress_out")
    /\ frame' = <<LibraryStep(Cur, "regress_out")>>
    /\ Goto
    /\ UNCHANGED <<files, env>>

\* sc.pp.scale(adata); return(adata): the caller rebinds its name to the
\* matrix returned.
RunScale ==
    /\ At("scale")
    /\ env' = Bind(pc.cell, LibraryStep(Cur, "scale"))
    /\ frame' = <<>>
    /\ Goto
    /\ UNCHANGED files

\* The steps of Clustering, in place on the matrix passed in.
RunClusteringStep(op) ==
    /\ At(op)
    /\ pc.cell \in {"cluster_naive", "cluster_car1"}
    /\ env' = Bind(Target(pc.cell), LibraryStep(Cur, op))
    /\ Goto
    /\ UNCHANGED <<files, frame>>

RunPca == RunClusteringStep("pca")
RunNeighbors == RunClusteringStep("neighbors")
RunUmap == RunClusteringStep("umap")
RunLeiden == RunClusteringStep("leiden")

\* A normaliser or clustering step on a matrix too small for it either goes
\* through or raises, depending on the step and on the library's version.
LibraryStmts ==
    { "normalize_per_cell", "log1p", "highly_variable_genes", "regress_out",
      "scale", "pca", "neighbors", "umap", "leiden" }

LibraryError ==
    /\ status = "running"
    /\ Stmt \in LibraryStmts
    /\ TooSmall(Cur)
    /\ Raise("LibraryError")

\* The columns of left that are columns of right too, in the order of left.
Intersection(left, right) ==
    Mask(left, {j \in 1..Len(left) : left[j] \in Range(right)})

\* var_names=naive.var_names.intersection(car1.var_names)
RunIntersection ==
    /\ At("intersection")
    /\ env' = Bind("var_names", Intersection(env["naive"].var, env["car1"].var))
    /\ Goto
    /\ UNCHANGED <<files, frame>>

\* naive=naive_treated[:,var_names]: no statement of the notebook binds
\* naive_treated, so looking it up raises NameError and the statements after
\* it (car1[:,var_names], concatenate, Clustering, bbknn) are never run.
RunRestrictNaive ==
    /\ At("naive_treated")
    /\ ~Bound("naive_treated")
    /\ Raise("NameError")

Next ==
    \/ RunLoadData
    \/ LoadDataFails
    \/ RunSetSample
    \/ RunFilterGenes
    \/ RunFilterCells
    \/ RunCalculateQcMetrics
    \/ RunHighGenes
    \/ RunLowGenes
    \/ RunMitoCutoff
    \/ RunNormalizePerCell
    \/ RunLog1p
    \/ RunHighlyVariableGenes
    \/ RunRegressOut
    \/ RunScale
    \/ RunPca
    \/ RunNeighbors
    \/ RunUmap
    \/ RunLeiden
    \/ LibraryError
    \/ RunIntersection
    \/ RunRestrictNaive

Spec == Init /\ [][Next]_vars

---------------------------------------------------------------------------
(* Properties *)

\* The matrices that exist: those bound in the namespace and the local one.
Matrices ==
    {env[n] : n \in (DOMAIN env) \cap {"car1", "naive", "adata"}}
    \cup Range(frame)

FilterStmts == {"filter_genes", "filter_cells", "high", "low", "mt"}

Has(adata, op) == \E k \in 1..Len(adata.applied) : adata.applied[k] = op

Positions(adata, op) == {k \in 1..Len(adata.applied) : adata.applied[k] = op}

\* The rows of the matrix a view was taken from.
ParentObs(adata) == DOMAIN adata.n_genes_by_counts

\* The sample whose BasicFiltering has returned its matrix.
Returned(s) == Bound(s) /\ Has(env[s], "scale")

\* C1: every filtering step of BasicFiltering (filter_genes, filter_cells,
\* the upper and the lower bound on the gene count, the mitochondrial
\* cutoff) leaves a subset of the cells and a subset of the genes it found:
\* no step adds a cell or a gene, and neither count increases.
C1_FilteringOnlyRemoves ==
    [][ (status = "running" /\ Stmt \in FilterStmts) =>
          /\ Cur'.obs \subseteq Cur.obs
          /\ Range(Cur'.var) \subseteq Range(Cur.var)
          /\ n_obs(Cur') <= n_obs(Cur)
          /\ n_vars(Cur') <= n_vars(Cur) ]_vars

\* The three cutoffs have run, each of the five steps removed something and
\* cells are left.
C1_Witness ==
    /\ status = "running" /\ Stmt = "normalize_per_cell"
    /\ Len(Cur.var) < 6
    /\ \E c \in ParentObs(Cur) : Cur.n_genes_by_counts[c] >= max_n_genes_by_counts
    /\ \E c \in ParentObs(Cur) : Cur.n_genes_by_counts[c] <= min_n_genes_by_counts
    /\ Cur.obs # {}
    /\ Cur.obs # ParentObs(Cur)

\* C2 as stated: the mitochondrial step drops exactly the cells whose
\* percentage is above 10, so a cell at exactly 10% that reached the step is
\* kept.
C2_DropsOnlyAboveCutoff ==
    [][ At("mt") =>
          Cur'.obs = {c \in Cur.obs :
                        ~PctGreater(Cur.pct_counts_mt[c], max_pct_counts_mt)} ]_vars

\* C2 as amended: the mitochondrial step drops exactly the cells whose
\* percentage is 10 or above, a cell at 15% and a cell at exactly 10% among
\* them, and keeps every cell below 10% that reached the step.
C2_DropsAtOrAboveCutoff ==
    [][ At("mt") =>
          /\ Cur.obs \ Cur'.obs =
                {c \in Cur.obs :
                    \/ PctGreater(Cur.pct_counts_mt[c], max_pct_counts_mt)
                    \/ PctEqual(Cur.pct_counts_mt[c], max_pct_counts_mt)}
          /\ \A c \in Cur.obs :
                PctLess(Cur.pct_counts_mt[c], max_pct_counts_mt)
                    => c \in Cur'.obs
          /\ \A c \in Cur.obs :
                PctEqual(Cur.pct_counts_mt[c], 15) => c \notin Cur'.obs
          /\ Cur'.obs \subseteq Cur.obs ]_vars

ReachedMitoCutoff(adata, c) ==
    /\ c \in ParentObs(adata)
    /\ adata.n_genes_by_counts[c] < max_n_genes_by_counts
    /\ adata.n_genes_by_counts[c] > min_n_genes_by_counts

\* The mitochondrial step has run on a cell at exactly 10%, a cell at 15%
\* and a cell below 10%.
C2_Witness ==
    /\ status = "running" /\ Stmt = "normalize_per_cell"
    /\ \E c \in ParentObs(Cur) \ Cur.obs :
          ReachedMitoCutoff(Cur, c) /\ PctEqual(Cur.pct_counts_mt[c], 10)
    /\ \E c \in ParentObs(Cur) \ Cur.obs :
          ReachedMitoCutoff(Cur, c) /\ PctEqual(Cur.pct_counts_mt[c], 15)
    /\ \E c \in Cur.obs : PctLess(Cur.pct_counts_mt[c], 10)

\* C3 as stated: a top-to-bottom run on two well-formed samples, once it has
\* ended, has reached every stage: both samples clustered, the merged matrix
\* built and clustered, and the Integrator run on it.
C3_EveryStageReached ==
    ( /\ status # "running"
      /\ \A s \in Samples : files[s] = "ok"
      /\ \A k \in 1..Len(err) : err[k].type # "LibraryError" )
    => /\ status = "done"
       /\ \A s \in Samples : Bound(s) /\ Has(env[s], "leiden")
       /\ Bound("adata")
       /\ Has(env["adata"], "bbknn")

\* The normaliser steps, in the order the design fixes.
NormalizerOrder ==
    << "normalize_per_cell", "log1p", "highly_variable_genes",
       "regress_out", "scale" >>

\* C4: on every matrix each normaliser step is applied at most once; a step
\* is applied only after the one before it in the order normalize,
\* log-transform, select-variable-genes, regress-confounders, scale; all of
\* them come after the last QC filtering step and before PCA.
C4_NormalizerOnceInOrder ==
    \A adata \in Matrices :
        /\ \A k \in 1..Len(NormalizerOrder) :
              Cardinality(Positions(adata, NormalizerOrder[k])) <= 1
        /\ \A k \in 2..Len(NormalizerOrder) :
              \A q \in Positions(adata, NormalizerOrder[k]) :
                 \E p \in Positions(adata, NormalizerOrder[k - 1]) : p < q
        /\ \A q \in Positions(adata, NormalizerOrder[1]) :
              /\ \A op \in FilterStmts : Has(adata, op)
              /\ \A op \in FilterStmts : \A p \in Positions(adata, op) : p < q
        /\ \A q \in Positions(adata, "pca") :
              /\ \A k \in 1..Len(NormalizerOrder) :
                    \E p \in Positions(adata, NormalizerOrder[k]) : p < q
              /\ \A op \in FilterStmts : \A p \in Positions(adata, op) : p < q

\* Both samples have gone through the normaliser and PCA.
C4_Witness ==
    /\ \A s \in Samples : Bound(s) /\ Has(env[s], "scale") /\ Has(env[s], "pca")
    /\ \A s \in Samples : env[s].obs # {}

\* The run has come to the merge with both samples clustered.
MergeDue ==
    /\ status # "running"
    /\ pc.cell \in {"merge", "integrate", "end"}

\* C5 as stated: the merge restricts both matrices to the genes present in
\* both samples, whichever is taken as the left operand, and the merged
\* matrix has exactly those genes.
C5_MergedOnSharedGenes ==
    MergeDue =>
        /\ Bound("var_names")
        /\ Range(env["var_names"]) =
              Range(Intersection(env["car1"].var, env["naive"].var))
        /\ Bound("adata")
        /\ Range(env["adata"].var) = Range(env["var_names"])
        /\ \A s \in Samples : Range(env[s].var) = Range(env["var_names"])

\* C6 as stated: the merged matrix has as many cells as the two processed
\* samples together, each with the label of the sample it came from.
C6_MergedKeepsEveryCell ==
    MergeDue =>
        /\ Bound("adata")
        /\ n_obs(env["adata"]) = n_obs(env["naive"]) + n_obs(env["car1"])
        /\ \A c \in env["adata"].obs :
              env["adata"].sample[c] \in {"Naive", "Car1"}

\* C7: from the moment LoadData returns, no two columns of a matrix have the
\* same gene symbol, whatever symbols the feature list repeats; this holds
\* in every later state, through QC and the merge.
C7_GeneSymbolsUnique ==
    /\ \A adata \in Matrices : IsUnique(adata.var)
    /\ Bound("var_names") => IsUnique(env["var_names"])

\* A sample whose feature list repeated a symbol has been through QC with a
\* column renamed by var_names_make_unique still in it, next to the column
\* of the original symbol.
C7_Witness ==
    \E s \in Samples :
        /\ Returned(s)
        /\ \E i, j \in 1..Len(env[s].var) :
              env[s].var[j] = env[s].var[i] \o <<"-", "2">>

\* The load of sample s has been attempted.
LoadAttempted(s) ==
    \/ CellIndex(pc.cell) > CellIndex(s)
    \/ pc.cell = s /\ (pc.i > 1 \/ status # "running")

\* C8: when the directory of a sample is missing or malformed, the run ends
\* at the load of that sample: the name of the sample stays unbound and no
\* later statement (QC, normaliser, clustering, merge, integration) is run.
C8_LoadFailureEndsRun ==
    \A s \in Samples :
        (files[s] # "ok" /\ LoadAttempted(s)) =>
            /\ status = "error"
            /\ pc = [cell |-> s, i |-> 1]
            /\ err[1].stmt = "LoadData"
            /\ ~Bound(s)
            /\ ~Bound("adata")
            /\ frame = <<>>
            /\ \A adata \in Matrices : ~Has(adata, "pca")

\* The first sample has been filtered and normalised and the load of the
\* second has failed.
C8_Witness ==
    /\ status = "error"
    /\ err[1].stmt = "LoadData"
    /\ err[1].cell = "naive"
    /\ Returned("car1")

\* C9 as stated: the lower bound on the gene count removes no cell that
\* survived filter_cells and the upper bound.
C9_LowerBoundRemovesNothing ==
    [][ At("low") => Cur'.obs = Cur.obs ]_vars

\* C9 as amended: of the cells that survived filter_cells and the upper
\* bound, the lower bound removes exactly those with exactly 200 genes, which
\* filter_cells keeps; every cell with more than 200 genes is kept.
C9_LowerBoundRemovesExactly200 ==
    [][ At("low") =>
          /\ \A c \in Cur.obs : Cur.n_genes[c] >= min_genes
          /\ Cur.obs \ Cur'.obs = {c \in Cur.obs : Cur.n_genes[c] = min_genes}
          /\ \A c \in Cur.obs : Cur.n_genes[c] > min_genes => c \in Cur'.obs
          /\ Cur'.obs \subseteq Cur.obs ]_vars

\* The lower bound has removed a cell with exactly 200 genes that
\* filter_cells and the upper bound had kept, and has kept another cell.
C9_Witness ==
    /\ status = "running" /\ Stmt = "mt"
    /\ \E c \in ParentObs(Cur) \ Cur.obs :
          /\ Cur.n_genes[c] = min_genes
          /\ Cur.n_genes_by_counts[c] = min_n_genes_by_counts
    /\ Cur.obs # {}

\* C10 as stated: in the matrix BasicFiltering returns, every gene is
\* expressed in at least 3 of the cells of that matrix.
C10_GenesInThreeRetainedCells ==
    \A s \in Samples :
        Returned(s) =>
            \A j \in 1..Len(env[s].var) :
                CellsExpressing(env[s], j) >= min_cells

\* C10 as amended: in the matrix BasicFiltering returns, every gene was
\* expressed in at least 3 of the cells present when filter_genes ran (the
\* number filter_genes recorded for it); the cells removed afterwards may
\* leave it expressed in fewer.
C10_GenesInThreeLoadedCells ==
    \A s \in Samples :
        Returned(s) =>
            /\ Len(env[s].n_cells) = Len(env[s].var)
            /\ \A j \in 1..Len(env[s].var) :
                  /\ env[s].n_cells[j] >= min_cells
                  /\ CellsExpressing(env[s], j) <= env[s].n_cells[j]

\* BasicFiltering has returned a matrix with a gene expressed in fewer than 3
\* of its cells.
C10_Witness ==
    \E s \in Samples :
        /\ Returned(s)
        /\ env[s].obs # {}
        /\ \E j \in 1..Len(env[s].var) :
              /\ CellsExpressing(env[s], j) < min_cells
              /\ env[s].n_cells[j] >= min_cells

===========================================================================
